---- MODULE Spec2Model ----
(***************************************************************************)
(* LSDJmi: the receiver of LSDJ's "MIDI out" link protocol                 *)
(* (src/LSDJmi.ino, class LSDJmi).  One step of the model is one call of   *)
(* LSDJmi::check(): it polls readByte() and, when a byte arrived, runs the *)
(* frame classifier and the command dispatch to completion, including all *)
(* the MIDI bytes written to midiOut.                                      *)
(***************************************************************************)
EXTENDS Integers, Sequences, FiniteSets, TLC

(***************************************************************************)
(* Bounds of the model.                                                    *)
(***************************************************************************)
\* Number of bytes received from the link in a run of Spec.
MaxBytes == 7
\* Number of bytes received from the link in a run of SpecCfg.
MaxCfgBytes == 15
\* Number of bytes received from the link in a run of SpecSeq.
MaxSeqBytes == 19
\* Number of bytes received from the link in a run of SpecRead.
MaxReadBytes == 3

(***************************************************************************)
(* Enumerations of the source, with their numeric values.                  *)
(***************************************************************************)
ChannelCCModeSingle == 0
ChannelCCModeScaled == 1

ChannelConfigStateIdle == 0
ChannelConfigStateCCModeAndMIDIChannel == 1
ChannelConfigStateCC1 == 2
ChannelConfigStateCC7 == 8
ChannelConfigStateVelocity == 9

ReceiverStateCommand == 0
ReceiverStateData == 1

LSDJCommandN == 0
LSDJCommandX == 1
LSDJCommandY == 2

LSDJChannelPU1 == 0
LSDJChannelNOI == 3

\* const uint8_t NoCC = 0xFF
NoCC == 255

LSDJChannels == LSDJChannelPU1 .. LSDJChannelNOI

(***************************************************************************)
(* Bytes the link delivers.  readByte() returns the 7 bits clocked in      *)
(* after the data-ready sample, so a received byte is in 0..127.           *)
(***************************************************************************)
\* 0x7C, 0x7D (Start), 0x7E (Stop), 0x7F (clock tick)
TransportBytes == {124, 125, 126, 127}
\* 0x70..0x7B: 1111 kkcc, command kk on Gameboy channel cc
CommandBytes == 112 .. 123
\* Command arguments: 0x00, 0x12, 0x21, 0x3C, 0x6F
DataBytes == {0, 18, 33, 60, 111}
\* The bytes received in Spec
Bytes == TransportBytes \cup CommandBytes \cup DataBytes
\* The bytes received in SpecCfg: Start, Stop, and the N, X, Y commands of
\* channel PU1 with the arguments 0x00, 0x12, 0x21, 0x6F.
CfgBytes == {125, 126} \cup {112, 116, 120} \cup {0, 18, 33, 111}

\* The mode/channel arguments X mc received in SpecSeq, one for each count
\* m an argument can carry: 0x02, 0x12, 0x21, 0x30, 0x45, 0x5F, 0x6F.
ModeBytes == {2, 18, 33, 48, 69, 95, 111}
\* The CC number and velocity arguments received in SpecSeq: 0x05, 0x21.
NumberBytes == {5, 33}
\* The arguments of a normal X command received in SpecSeq:
\* 0x00, 0x0F, 0x1F, 0x25, 0x6F.
ValueBytes == {0, 15, 31, 37, 111}

\* The result of a poll that found no byte.
NoByte == -1

VARIABLES
    channels,       \* ChannelConfig channels[4]
    channelStates,  \* ChannelState channelStates[4]
    state,          \* ReceiverState state
    command,        \* LSDJCommand command
    channel,        \* LSDJChannel channel
    data,           \* uint8_t data
    started,        \* bool started
    out,            \* the MIDI messages written to midiOut by the last check()
    samples,        \* the levels of pinOUT the last readByte() sampled
    rx,             \* what readByte() gave the last check(): NoByte or the byte
    dispatched,     \* whether the last check() reached the command dispatch
    nbytes,         \* history: how many bytes were received so far
    cmdByte,        \* history: the last byte in 0x70..0x7B received
    preempting,     \* history: cmdByte arrived while a data byte was awaited
    intervened,     \* history: a byte 0x7C..0x7F arrived after cmdByte, while
                    \*          its data byte was awaited
    cfgBytes,       \* history, per channel: the data bytes consumed by the
                    \*          configuration states since the last Y6F
    preCfg,         \* history, per channel: the settings when the last Y6F came
    sounding        \* history, per channel: the (MIDI channel, note) of the
                    \*          Note On not yet followed by its Note Off

progVars == <<channels, channelStates, state, command, channel, data, started>>
histVars == <<nbytes, cmdByte, preempting, intervened, cfgBytes, preCfg, sounding>>
vars == <<channels, channelStates, state, command, channel, data, started,
          out, samples, rx, dispatched,
          nbytes, cmdByte, preempting, intervened, cfgBytes, preCfg, sounding>>

(***************************************************************************)
(* readByte(): lv[1] is the level of pinOUT at the first sample, lv[2] to  *)
(* lv[8] are the levels at the seven samples of the loop.                  *)
(***************************************************************************)
RECURSIVE ReadBits(_, _, _)
\* b after the first n samples, starting from b0: the loop shifts b left
\* in uint8_t and ors the sample just taken into bit 0.
ReadBits(lv, b0, n) ==
    IF n = 1 THEN b0
    ELSE LET b == (ReadBits(lv, b0, n - 1) * 2) % 256
         IN  IF lv[n] = 1 THEN b - (b % 2) + 1 ELSE b

\* Faulty variant of ReadByte: the first sample is shifted into b as well.
ReadByte_AllEight(lv) ==
    IF lv[1] = 0
    THEN [ok |-> FALSE, b |-> 0]
    ELSE [ok |-> TRUE, b |-> ReadBits(lv, 1, 8)]

\* static bool readByte(uint8_t& b)
ReadByte(lv) ==
    IF lv[1] = 0
    THEN [ok |-> FALSE, b |-> 0]
    ELSE [ok |-> TRUE, b |-> ReadBits(lv, 0, 8)]

\* The seven low bits of v, most significant first.
Bits7(v) == [i \in 1 .. 7 |-> (v \div (2 ^ (7 - i))) % 2]

\* The levels LSDJ puts on its OUT line for each byte that readByte() is to
\* return: bit 7 set, then the seven bits of the byte.
LinkLevels == [v \in 0 .. 127 |-> <<1>> \o Bits7(v)]

\* The levels on the line for the byte b.
Link(b) == LinkLevels[b]

\* Every run of eight levels of the line.
AllLevels == {<<f>> \o Bits7(v) : f \in {0, 1}, v \in 0 .. 127}

(***************************************************************************)
(* Arithmetic of the source.                                               *)
(***************************************************************************)
RECURSIVE BitOrN(_, _, _)
BitOrN(a, b, n) ==
    IF n = 0 THEN 0
    ELSE (IF (a % 2 = 1) \/ (b % 2 = 1) THEN 1 ELSE 0)
         + 2 * BitOrN(a \div 2, b \div 2, n - 1)

\* a | b on uint8_t
BitOr(a, b) == BitOrN(a, b, 8)

\* Faulty variant of Scale6F: the product is taken in uint8_t, without the
\* cast to uint16_t.
Scale6F_NoCast(v) == ((v * 127) % 256) \div 111

\* (uint8_t)((uint16_t)v * 0x7F / 0x6F): 00-6F to 00-7F
Scale6F(v) == (((v * 127) % 65536) \div 111) % 256

\* Faulty variant of ScaleNibble: the argument is scaled whole, without
\* the mask that keeps its low nibble.
ScaleNibble_NoMask(d) == (((d * 127) % 65536) \div 15) % 256

\* (uint8_t)((uint16_t)(d & 0x0F) * 0x7F / 0xF): 0-F to 00-7F
ScaleNibble(d) == ((((d % 16) * 127) % 65536) \div 15) % 256

(***************************************************************************)
(* The private helpers.  They work on a record st of the receiver's        *)
(* members: ch (channels), cs (channelStates), out (bytes written so far   *)
(* by this check(), message by message, each with the Gameboy channel it   *)
(* was written for).                                                       *)
(***************************************************************************)
Write(st, c, bytes) ==
    [st EXCEPT !.out = Append(@, [src |-> c, bytes |-> bytes])]

StopCurrentNote(st, c) ==
    IF st.cs[c].currentNote # 0
    THEN [Write(st, c, <<BitOr(128, st.ch[c].midiChannel),
                         st.cs[c].currentNote, 64>>)
            EXCEPT !.cs[c].currentNote = 0]
    ELSE st

\* Faulty variant of ResetConfigState: leaving the configuration also
\* forgets the CC numbers received in it.
ResetConfigState_ClearsSlots(st, c) ==
    IF st.cs[c].configState # ChannelConfigStateIdle
    THEN [st EXCEPT !.cs[c].configState = ChannelConfigStateIdle,
                    !.ch[c].ccNumbers = [i \in 0 .. 6 |-> NoCC]]
    ELSE st

ResetConfigState(st, c) ==
    IF st.cs[c].configState # ChannelConfigStateIdle
    THEN [st EXCEPT !.cs[c].configState = ChannelConfigStateIdle]
    ELSE st

RECURSIVE StopAllNotesFrom(_, _)
StopAllNotesFrom(st, c) ==
    IF c > LSDJChannelNOI THEN st
    ELSE StopAllNotesFrom(ResetConfigState(StopCurrentNote(st, c), c), c + 1)

\* Faulty variant of StopAllNotes: the loop ends one channel early
\* (channel < LSDJChannelNOI).
StopAllNotes_OffByOne(st) ==
    LET s0 == ResetConfigState(StopCurrentNote(st, 0), 0)
        s1 == ResetConfigState(StopCurrentNote(s0, 1), 1)
    IN  ResetConfigState(StopCurrentNote(s1, 2), 2)

StopAllNotes(st) == StopAllNotesFrom(st, LSDJChannelPU1)

(***************************************************************************)
(* The command dispatch of check(), one operator per case.                 *)
(***************************************************************************)
\* Faulty variant of NoteCommand: a configuration sequence in progress is
\* not abandoned.
NoteCommand_NoReset(st, c, d) ==
    LET s1 == StopCurrentNote(st, c)
    IN  IF d # 0
        THEN Write([s1 EXCEPT !.cs[c].currentNote = d], c,
                   <<BitOr(144, s1.ch[c].midiChannel), d,
                     Scale6F(s1.ch[c].velocity)>>)
        ELSE s1

\* Faulty variant of NoteCommand: the current note is not stopped first.
NoteCommand_NoStop(st, c, d) ==
    LET s1 == ResetConfigState(st, c)
    IN  IF d # 0
        THEN Write([s1 EXCEPT !.cs[c].currentNote = d], c,
                   <<BitOr(144, s1.ch[c].midiChannel), d,
                     Scale6F(s1.ch[c].velocity)>>)
        ELSE s1

\* Faulty variant of NoteCommand: the argument 0 is played as a note.
NoteCommand_ZeroIsNote(st, c, d) ==
    LET s1 == StopCurrentNote(ResetConfigState(st, c), c)
    IN  Write([s1 EXCEPT !.cs[c].currentNote = d], c,
              <<BitOr(144, s1.ch[c].midiChannel), d,
                Scale6F(s1.ch[c].velocity)>>)

\* case LSDJCommandN: note on/off
NoteCommand(st, c, d) ==
    LET s1 == StopCurrentNote(ResetConfigState(st, c), c)
    IN  IF d # 0
        THEN Write([s1 EXCEPT !.cs[c].currentNote = d], c,
                   <<BitOr(144, s1.ch[c].midiChannel), d,
                     Scale6F(s1.ch[c].velocity)>>)
        ELSE s1

\* The ccNumbers element a Scaled-mode X command selects.
ScaledIndex(d) == (d \div 16) % 16

\* Faulty variant of NormalCC: the message is written without the test for
\* NoCC.
NormalCC_NoTest(st, c, d) ==
    LET cfg == st.ch[c]
        value == IF cfg.ccMode = ChannelCCModeSingle
                 THEN Scale6F(d) ELSE ScaleNibble(d)
        ccNumber == IF cfg.ccMode = ChannelCCModeSingle
                    THEN cfg.ccNumbers[0]
                    ELSE cfg.ccNumbers[ScaledIndex(d)]
    IN  Write(st, c, <<BitOr(176, cfg.midiChannel), ccNumber, value>>)

\* case ChannelConfigStateIdle: a normal Control Change
NormalCC(st, c, d) ==
    LET cfg == st.ch[c]
        value == IF cfg.ccMode = ChannelCCModeSingle
                 THEN Scale6F(d) ELSE ScaleNibble(d)
        ccNumber == IF cfg.ccMode = ChannelCCModeSingle
                    THEN cfg.ccNumbers[0]
                    ELSE cfg.ccNumbers[ScaledIndex(d)]
    IN  IF ccNumber # NoCC
        THEN Write(st, c, <<BitOr(176, cfg.midiChannel), ccNumber, value>>)
        ELSE st

\* Faulty variant of ConfigModeAndChannel: the MIDI channel is changed
\* without stopping the note sounding in the old one.
ConfigModeAndChannel_NoStop(st, c, d) ==
    LET s1 == [st EXCEPT !.ch[c].midiChannel = d % 16]
        total == (d \div 16) % 16
        s2 == [s1 EXCEPT !.cs[c].configStateTotalCCs = total,
                         !.ch[c].ccNumbers = [i \in 0 .. 6 |-> NoCC]]
    IN  IF total > 0
        THEN [s2 EXCEPT
                !.ch[c].ccMode = IF total = 1 THEN ChannelCCModeSingle
                                              ELSE ChannelCCModeScaled,
                !.cs[c].configState = ChannelConfigStateCC1 + total - 1]
        ELSE [s2 EXCEPT !.cs[c].configState = ChannelConfigStateCC7 + 1]

\* Faulty variant of ConfigModeAndChannel: a count of 2 still selects the
\* single mode.
ConfigModeAndChannel_SingleUpTo2(st, c, d) ==
    LET newMIDIChannel == d % 16
        s1 == IF st.ch[c].midiChannel # newMIDIChannel
              THEN [StopCurrentNote(st, c)
                      EXCEPT !.ch[c].midiChannel = newMIDIChannel]
              ELSE st
        total == (d \div 16) % 16
        s2 == [s1 EXCEPT !.cs[c].configStateTotalCCs = total,
                         !.ch[c].ccNumbers = [i \in 0 .. 6 |-> NoCC]]
    IN  IF total > 0
        THEN [s2 EXCEPT
                !.ch[c].ccMode = IF total <= 2 THEN ChannelCCModeSingle
                                               ELSE ChannelCCModeScaled,
                !.cs[c].configState = ChannelConfigStateCC1 + total - 1]
        ELSE [s2 EXCEPT !.cs[c].configState = ChannelConfigStateCC7 + 1]

\* Faulty variant of ConfigModeAndChannel: the count is taken one too high.
ConfigModeAndChannel_CountPlusOne(st, c, d) ==
    LET newMIDIChannel == d % 16
        s1 == IF st.ch[c].midiChannel # newMIDIChannel
              THEN [StopCurrentNote(st, c)
                      EXCEPT !.ch[c].midiChannel = newMIDIChannel]
              ELSE st
        total == ((d \div 16) % 16) + 1
        s2 == [s1 EXCEPT !.cs[c].configStateTotalCCs = total,
                         !.ch[c].ccNumbers = [i \in 0 .. 6 |-> NoCC]]
    IN  IF total > 0
        THEN [s2 EXCEPT
                !.ch[c].ccMode = IF total = 1 THEN ChannelCCModeSingle
                                              ELSE ChannelCCModeScaled,
                !.cs[c].configState = ChannelConfigStateCC1 + total - 1]
        ELSE [s2 EXCEPT !.cs[c].configState = ChannelConfigStateCC7 + 1]

\* Faulty variant of ConfigModeAndChannel: the countdown starts one state
\* too high.
ConfigModeAndChannel_OneStateTooHigh(st, c, d) ==
    LET newMIDIChannel == d % 16
        s1 == IF st.ch[c].midiChannel # newMIDIChannel
              THEN [StopCurrentNote(st, c)
                      EXCEPT !.ch[c].midiChannel = newMIDIChannel]
              ELSE st
        total == (d \div 16) % 16
        s2 == [s1 EXCEPT !.cs[c].configStateTotalCCs = total,
                         !.ch[c].ccNumbers = [i \in 0 .. 6 |-> NoCC]]
    IN  IF total > 0
        THEN [s2 EXCEPT
                !.ch[c].ccMode = IF total = 1 THEN ChannelCCModeSingle
                                              ELSE ChannelCCModeScaled,
                !.cs[c].configState = ChannelConfigStateCC1 + total]
        ELSE [s2 EXCEPT !.cs[c].configState = ChannelConfigStateCC7 + 1]

\* case ChannelConfigStateCCModeAndMIDIChannel
ConfigModeAndChannel(st, c, d) ==
    LET newMIDIChannel == d % 16
        s1 == IF st.ch[c].midiChannel # newMIDIChannel
              THEN [StopCurrentNote(st, c)
                      EXCEPT !.ch[c].midiChannel = newMIDIChannel]
              ELSE st
        total == (d \div 16) % 16
        s2 == [s1 EXCEPT !.cs[c].configStateTotalCCs = total,
                         !.ch[c].ccNumbers = [i \in 0 .. 6 |-> NoCC]]
    IN  IF total > 0
        THEN [s2 EXCEPT
                !.ch[c].ccMode = IF total = 1 THEN ChannelCCModeSingle
                                              ELSE ChannelCCModeScaled,
                !.cs[c].configState = ChannelConfigStateCC1 + total - 1]
        ELSE [s2 EXCEPT !.cs[c].configState = ChannelConfigStateCC7 + 1]

\* Faulty variant of ConfigCC: the element written is numbered by the
\* countdown itself, so the elements fill from the highest down.
ConfigCC_HighestFirst(st, c, d) ==
    LET left == st.cs[c].configState - ChannelConfigStateCC1
        s1 == [st EXCEPT !.ch[c].ccNumbers[left] = d]
    IN  IF left > 0
        THEN [s1 EXCEPT !.cs[c].configState = @ - 1]
        ELSE [s1 EXCEPT !.cs[c].configState = ChannelConfigStateVelocity]

\* case ChannelConfigStateCC1 .. ChannelConfigStateCC7
ConfigCC(st, c, d) ==
    LET left == st.cs[c].configState - ChannelConfigStateCC1
        index == st.cs[c].configStateTotalCCs - 1 - left
        s1 == [st EXCEPT !.ch[c].ccNumbers[index] = d]
    IN  IF left > 0
        THEN [s1 EXCEPT !.cs[c].configState = @ - 1]
        ELSE [s1 EXCEPT !.cs[c].configState = ChannelConfigStateVelocity]

\* Faulty variant of ConfigVelocity: the velocity is stored, the
\* configuration is not left.
ConfigVelocity_Stay(st, c, d) == [st EXCEPT !.ch[c].velocity = d]

\* case ChannelConfigStateVelocity
ConfigVelocity(st, c, d) ==
    ResetConfigState([st EXCEPT !.ch[c].velocity = d], c)

\* case LSDJCommandX: Control Change, or a step of the configuration
ControlChangeCommand(st, c, d) ==
    LET cs == st.cs[c].configState
    IN  CASE cs = ChannelConfigStateIdle -> NormalCC(st, c, d)
          [] cs = ChannelConfigStateCCModeAndMIDIChannel ->
                ConfigModeAndChannel(st, c, d)
          [] cs \in ChannelConfigStateCC1 .. ChannelConfigStateCC7 ->
                ConfigCC(st, c, d)
          [] cs = ChannelConfigStateVelocity -> ConfigVelocity(st, c, d)

\* Faulty variant of ProgramChangeCommand: the configuration sequences of
\* all four channels are abandoned, not only the one of channel c.
ProgramChangeCommand_AllChannels(st, c, d) ==
    LET s1 == ResetConfigState(ResetConfigState(ResetConfigState(
                ResetConfigState(st, 0), 1), 2), 3)
    IN  IF d = 111
        THEN [s1 EXCEPT
                !.cs[c].configState = ChannelConfigStateCCModeAndMIDIChannel]
        ELSE Write(s1, c, <<BitOr(192, s1.ch[c].midiChannel), d>>)

\* Faulty variant of ProgramChangeCommand: Y6F is a Program Change to 111,
\* as it is for Arduinoboy.
ProgramChangeCommand_NoSentinel(st, c, d) ==
    LET s1 == ResetConfigState(st, c)
    IN  Write(s1, c, <<BitOr(192, s1.ch[c].midiChannel), d>>)

\* case LSDJCommandY: Program Change, or "enter channel configuration mode"
ProgramChangeCommand(st, c, d) ==
    LET s1 == ResetConfigState(st, c)
    IN  IF d = 111
        THEN [s1 EXCEPT
                !.cs[c].configState = ChannelConfigStateCCModeAndMIDIChannel]
        ELSE Write(s1, c, <<BitOr(192, s1.ch[c].midiChannel), d>>)

\* The members the helpers work on, before anything is written.
Members == [ch |-> channels, cs |-> channelStates, out |-> <<>>]

(***************************************************************************)
(* History of the emitted stream: per Gameboy channel, the Note On that    *)
(* has not been followed by a Note Off for its note on its MIDI channel.   *)
(***************************************************************************)
IsNoteOn(m) == m.bytes[1] \div 16 = 9
IsNoteOff(m) == m.bytes[1] \div 16 = 8
IsControlChange(m) == m.bytes[1] \div 16 = 11
IsProgramChange(m) == m.bytes[1] \div 16 = 12

TrackOne(snd, m) ==
    IF IsNoteOn(m)
    THEN [snd EXCEPT ![m.src] = <<m.bytes[1] % 16, m.bytes[2]>>]
    ELSE IF IsNoteOff(m) /\ snd[m.src] = <<m.bytes[1] % 16, m.bytes[2]>>
    THEN [snd EXCEPT ![m.src] = <<>>]
    ELSE snd

RECURSIVE Track(_, _, _)
\* snd after the first n messages of msgs
Track(snd, msgs, n) ==
    IF n = 0 THEN snd ELSE TrackOne(Track(snd, msgs, n - 1), msgs[n])

(***************************************************************************)
(* The initial state: the members as the constructor and the default       *)
(* member initializers leave them (mi is a global, so the members with no  *)
(* initializer are zero).                                                  *)
(***************************************************************************)
InitChannel ==
    [midiChannel |-> 0, ccMode |-> ChannelCCModeSingle,
     ccNumbers |-> [i \in 0 .. 6 |-> NoCC], velocity |-> 63]

Init ==
    /\ channels = [c \in LSDJChannels |-> InitChannel]
    /\ channelStates = [c \in LSDJChannels |->
            [currentNote |-> 0, configState |-> ChannelConfigStateIdle,
             configStateTotalCCs |-> 0]]
    /\ state = ReceiverStateCommand
    /\ command = LSDJCommandN
    /\ channel = LSDJChannelPU1
    /\ data = 0
    /\ started = FALSE
    /\ out = <<>>
    /\ samples = <<>>
    /\ rx = NoByte
    /\ dispatched = FALSE
    /\ nbytes = 0
    /\ cmdByte = NoByte
    /\ preempting = FALSE
    /\ intervened = FALSE
    /\ cfgBytes = [c \in LSDJChannels |-> <<>>]
    /\ preCfg = [c \in LSDJChannels |-> InitChannel]
    /\ sounding = [c \in LSDJChannels |-> <<>>]

(***************************************************************************)
(* check(): one action per path through it.                                *)
(***************************************************************************)
\* What every check() that received byte b records.
Received(b) ==
    /\ ReadByte(samples') = [ok |-> TRUE, b |-> b]
    /\ rx' = b
    /\ nbytes' = nbytes + 1
    /\ sounding' = Track(sounding, out', Len(out'))

\* A byte 0x7C..0x7F leaves the classifier alone.
TransportHistory ==
    /\ intervened' = (intervened \/ state = ReceiverStateData)
    /\ UNCHANGED <<cmdByte, preempting, cfgBytes, preCfg>>

\* if (!readByte(b)) return;
PollNoByte ==
    /\ samples' = <<0>>
    /\ ~ReadByte(samples').ok
    /\ rx' = NoByte
    /\ out' = <<>>
    /\ dispatched' = FALSE
    /\ UNCHANGED <<progVars, histVars>>

\* case 0x7D
RxStart(b) ==
    /\ b = 125
    /\ started' = TRUE
    /\ out' = <<>>
    /\ dispatched' = FALSE
    /\ UNCHANGED <<channels, channelStates, state, command, channel, data>>
    /\ TransportHistory
    /\ Received(b)

\* Faulty variant of RxStop: the notes are stopped, the configuration
\* sequences are left as they are.
RxStop_NotesOnly(b) ==
    /\ b = 126
    /\ LET st == IF started
                 THEN StopCurrentNote(StopCurrentNote(StopCurrentNote(
                        StopCurrentNote(Members, 0), 1), 2), 3)
                 ELSE Members
       IN  /\ channels' = st.ch
           /\ channelStates' = st.cs
           /\ out' = st.out
    /\ started' = FALSE
    /\ dispatched' = FALSE
    /\ UNCHANGED <<state, command, channel, data>>
    /\ TransportHistory
    /\ Received(b)

\* Faulty variant of RxStop: started is cleared and nothing is stopped.
RxStop_FlagOnly(b) ==
    /\ b = 126
    /\ started' = FALSE
    /\ out' = <<>>
    /\ dispatched' = FALSE
    /\ UNCHANGED <<channels, channelStates, state, command, channel, data>>
    /\ TransportHistory
    /\ Received(b)

\* case 0x7E
RxStop(b) ==
    /\ b = 126
    /\ LET st == IF started THEN StopAllNotes(Members) ELSE Members
       IN  /\ channels' = st.ch
           /\ channelStates' = st.cs
           /\ out' = st.out
    /\ started' = FALSE
    /\ dispatched' = FALSE
    /\ UNCHANGED <<state, command, channel, data>>
    /\ TransportHistory
    /\ Received(b)

\* case 0x7C, case 0x7F
RxUnused(b) ==
    /\ b \in {124, 127}
    /\ out' = <<>>
    /\ dispatched' = FALSE
    /\ UNCHANGED progVars
    /\ TransportHistory
    /\ Received(b)

\* Faulty variant of RxCommand: a command byte that arrives while a data
\* byte is awaited is dropped instead of starting a new frame.
RxCommand_NoPreempt(b) ==
    /\ b >= 112
    /\ b \notin {124, 125, 126, 127}
    /\ IF state = ReceiverStateData
       THEN UNCHANGED <<channel, command, state>>
       ELSE /\ channel' = b % 4
            /\ command' = (b \div 4) % 4
            /\ state' = ReceiverStateData
    /\ out' = <<>>
    /\ dispatched' = FALSE
    /\ UNCHANGED <<channels, channelStates, data, started>>
    /\ cmdByte' = b
    /\ preempting' = (state = ReceiverStateData)
    /\ intervened' = FALSE
    /\ UNCHANGED <<cfgBytes, preCfg>>
    /\ Received(b)

\* default: a command byte
RxCommand(b) ==
    /\ b >= 112
    /\ b \notin {124, 125, 126, 127}
    /\ channel' = b % 4
    /\ command' = (b \div 4) % 4
    /\ state' = ReceiverStateData
    /\ out' = <<>>
    /\ dispatched' = FALSE
    /\ UNCHANGED <<channels, channelStates, data, started>>
    /\ cmdByte' = b
    /\ preempting' = (state = ReceiverStateData)
    /\ intervened' = FALSE
    /\ UNCHANGED <<cfgBytes, preCfg>>
    /\ Received(b)

\* Faulty variant of RxStray: the byte is stored in data before the state
\* is looked at.
RxStray_StoresData(b) ==
    /\ b < 112
    /\ state = ReceiverStateCommand
    /\ data' = b
    /\ out' = <<>>
    /\ dispatched' = FALSE
    /\ UNCHANGED <<channels, channelStates, state, command, channel, started>>
    /\ UNCHANGED <<cmdByte, preempting, intervened, cfgBytes, preCfg>>
    /\ Received(b)

\* b < 0x70 while state == ReceiverStateCommand: neither branch is taken
RxStray(b) ==
    /\ b < 112
    /\ state = ReceiverStateCommand
    /\ out' = <<>>
    /\ dispatched' = FALSE
    /\ UNCHANGED progVars
    /\ UNCHANGED <<cmdByte, preempting, intervened, cfgBytes, preCfg>>
    /\ Received(b)

\* Faulty variant of RxDataNotStarted: the return on !started comes before
\* the classifier is put back to ReceiverStateCommand.
RxDataNotStarted_EarlyReturn(b) ==
    /\ b < 112
    /\ state = ReceiverStateData
    /\ ~started
    /\ out' = <<>>
    /\ dispatched' = FALSE
    /\ UNCHANGED progVars
    /\ UNCHANGED <<cmdByte, preempting, intervened, cfgBytes, preCfg>>
    /\ Received(b)

\* b < 0x70 while state == ReceiverStateData and !started: return
RxDataNotStarted(b) ==
    /\ b < 112
    /\ state = ReceiverStateData
    /\ ~started
    /\ data' = b
    /\ state' = ReceiverStateCommand
    /\ out' = <<>>
    /\ dispatched' = FALSE
    /\ UNCHANGED <<channels, channelStates, command, channel, started>>
    /\ UNCHANGED <<cmdByte, preempting, intervened, cfgBytes, preCfg>>
    /\ Received(b)

\* What a dispatching check() does besides the command's case.
Dispatch(b, st) ==
    /\ data' = b
    /\ state' = ReceiverStateCommand
    /\ channels' = st.ch
    /\ channelStates' = st.cs
    /\ out' = st.out
    /\ dispatched' = TRUE
    /\ UNCHANGED <<command, channel, started>>
    /\ UNCHANGED <<cmdByte, preempting, intervened>>
    /\ Received(b)

DispatchGuard(b) ==
    /\ b < 112
    /\ state = ReceiverStateData
    /\ started

DispatchN(b) ==
    /\ DispatchGuard(b)
    /\ command = LSDJCommandN
    /\ Dispatch(b, NoteCommand(Members, channel, b))
    /\ UNCHANGED <<cfgBytes, preCfg>>

DispatchX(b) ==
    /\ DispatchGuard(b)
    /\ command = LSDJCommandX
    /\ Dispatch(b, ControlChangeCommand(Members, channel, b))
    /\ cfgBytes' =
         IF channelStates[channel].configState # ChannelConfigStateIdle
         THEN [cfgBytes EXCEPT ![channel] = Append(@, b)]
         ELSE cfgBytes
    /\ UNCHANGED preCfg

DispatchY(b) ==
    /\ DispatchGuard(b)
    /\ command = LSDJCommandY
    /\ Dispatch(b, ProgramChangeCommand(Members, channel, b))
    /\ cfgBytes' = IF b = 111 THEN [cfgBytes EXCEPT ![channel] = <<>>]
                   ELSE cfgBytes
    /\ preCfg' = IF b = 111 THEN [preCfg EXCEPT ![channel] = channels[channel]]
                 ELSE preCfg

\* The switch on command has no case for the value 3, which no command byte
\* below 0x7C decodes to.
Next ==
    \/ PollNoByte
    \/ \E b \in Bytes : nbytes < MaxBytes /\ samples' = Link(b) /\ RxStart(b)
    \/ \E b \in Bytes : nbytes < MaxBytes /\ samples' = Link(b) /\ RxStop(b)
    \/ \E b \in Bytes : nbytes < MaxBytes /\ samples' = Link(b) /\ RxUnused(b)
    \/ \E b \in Bytes : nbytes < MaxBytes /\ samples' = Link(b) /\ RxCommand(b)
    \/ \E b \in Bytes : nbytes < MaxBytes /\ samples' = Link(b) /\ RxStray(b)
    \/ \E b \in Bytes : nbytes < MaxBytes
         /\ samples' = Link(b)
         /\ RxDataNotStarted(b)
    \/ \E b \in Bytes : nbytes < MaxBytes /\ samples' = Link(b) /\ DispatchN(b)
    \/ \E b \in Bytes : nbytes < MaxBytes /\ samples' = Link(b) /\ DispatchX(b)
    \/ \E b \in Bytes : nbytes < MaxBytes /\ samples' = Link(b) /\ DispatchY(b)

Spec == Init /\ [][Next]_vars

NextCfg ==
    \/ PollNoByte
    \/ \E b \in CfgBytes : nbytes < MaxCfgBytes
         /\ samples' = Link(b)
         /\ RxStart(b)
    \/ \E b \in CfgBytes : nbytes < MaxCfgBytes
         /\ samples' = Link(b)
         /\ RxStop(b)
    \/ \E b \in CfgBytes : nbytes < MaxCfgBytes
         /\ samples' = Link(b)
         /\ RxCommand(b)
    \/ \E b \in CfgBytes : nbytes < MaxCfgBytes
         /\ samples' = Link(b)
         /\ RxStray(b)
    \/ \E b \in CfgBytes : nbytes < MaxCfgBytes
         /\ samples' = Link(b)
         /\ RxDataNotStarted(b)
    \/ \E b \in CfgBytes : nbytes < MaxCfgBytes
         /\ samples' = Link(b)
         /\ DispatchN(b)
    \/ \E b \in CfgBytes : nbytes < MaxCfgBytes
         /\ samples' = Link(b)
         /\ DispatchX(b)
    \/ \E b \in CfgBytes : nbytes < MaxCfgBytes
         /\ samples' = Link(b)
         /\ DispatchY(b)

SpecCfg == Init /\ [][NextCfg]_vars

\* The bytes LSDJ sends next in SpecSeq: Start, X and Y commands of channel
\* PU1, every Y with the argument 0x6F and every X with an argument of the
\* kind the channel's configuration state reads it as.
SeqBytes ==
    IF state = ReceiverStateCommand THEN {125, 116, 120}
    ELSE IF command = LSDJCommandY THEN {111}
    ELSE LET cs == channelStates[LSDJChannelPU1].configState
         IN  IF cs = ChannelConfigStateIdle THEN ValueBytes
             ELSE IF cs = ChannelConfigStateCCModeAndMIDIChannel
             THEN ModeBytes
             ELSE NumberBytes

NextSeq ==
    \/ PollNoByte
    \/ \E b \in SeqBytes : nbytes < MaxSeqBytes
         /\ samples' = Link(b)
         /\ RxStart(b)
    \/ \E b \in SeqBytes : nbytes < MaxSeqBytes
         /\ samples' = Link(b)
         /\ RxCommand(b)
    \/ \E b \in SeqBytes : nbytes < MaxSeqBytes
         /\ samples' = Link(b)
         /\ RxDataNotStarted(b)
    \/ \E b \in SeqBytes : nbytes < MaxSeqBytes
         /\ samples' = Link(b)
         /\ DispatchX(b)
    \/ \E b \in SeqBytes : nbytes < MaxSeqBytes
         /\ samples' = Link(b)
         /\ DispatchY(b)

SpecSeq == Init /\ [][NextSeq]_vars

\* The levels of the line at a poll in SpecRead: any run of eight levels at
\* the last poll that finds a byte, and before it an idle line or one of
\* the bytes Start, N, X and Y of channel PU1.
ReadLevels ==
    IF nbytes + 1 < MaxReadBytes
    THEN {<<0>> \o Bits7(0)} \cup {Link(b) : b \in {125, 112, 116, 120}}
    ELSE AllLevels

\* check() with the byte that readByte() makes of the levels lv.
NextRead ==
    \/ \E lv \in ReadLevels : PollNoByte /\ samples' = <<lv[1]>>
    \/ \E lv \in ReadLevels : nbytes < MaxReadBytes
         /\ samples' = lv /\ RxStart(ReadByte(lv).b)
    \/ \E lv \in ReadLevels : nbytes < MaxReadBytes
         /\ samples' = lv /\ RxStop(ReadByte(lv).b)
    \/ \E lv \in ReadLevels : nbytes < MaxReadBytes
         /\ samples' = lv /\ RxUnused(ReadByte(lv).b)
    \/ \E lv \in ReadLevels : nbytes < MaxReadBytes
         /\ samples' = lv /\ RxCommand(ReadByte(lv).b)
    \/ \E lv \in ReadLevels : nbytes < MaxReadBytes
         /\ samples' = lv /\ RxStray(ReadByte(lv).b)
    \/ \E lv \in ReadLevels : nbytes < MaxReadBytes
         /\ samples' = lv /\ RxDataNotStarted(ReadByte(lv).b)
    \/ \E lv \in ReadLevels : nbytes < MaxReadBytes
         /\ samples' = lv /\ DispatchN(ReadByte(lv).b)
    \/ \E lv \in ReadLevels : nbytes < MaxReadBytes
         /\ samples' = lv /\ DispatchX(ReadByte(lv).b)
    \/ \E lv \in ReadLevels : nbytes < MaxReadBytes
         /\ samples' = lv /\ DispatchY(ReadByte(lv).b)

SpecRead == Init /\ [][NextRead]_vars

(***************************************************************************)
(* Properties.                                                             *)
(***************************************************************************)
\* This step is a check() that received byte b.
Rx(b) == nbytes' = nbytes + 1 /\ rx' = b

\* This step is a check() that received a byte.
RxAny == nbytes' = nbytes + 1

\* This step receives a byte while the transport is started and a data
\* byte is awaited for command k.
AwaitedBy(k) ==
    RxAny /\ started /\ state = ReceiverStateData /\ command = k

NoteOffMsg(c, mc, note) == [src |-> c, bytes |-> <<128 + mc, note, 64>>]
NoteOnMsg(c, mc, note, vel) ==
    [src |-> c, bytes |-> <<144 + mc, note, (vel * 127) \div 111>>]
ControlChangeMsg(c, mc, cc, value) ==
    [src |-> c, bytes |-> <<176 + mc, cc, value>>]
ProgramChangeMsg(c, mc, p) == [src |-> c, bytes |-> <<192 + mc, p>>]

NoteOnsIn(msgs) == {i \in 1 .. Len(msgs) : IsNoteOn(msgs[i])}

\* The step emits exactly one Note On, the one for note n on the current
\* channel, after the Note Off of the note that was sounding on it.
EmitsNoteOn(n) ==
    LET c == channel
        mc == channels[c].midiChannel
        m == channelStates[c].currentNote
    IN  /\ Cardinality(NoteOnsIn(out')) = 1
        /\ \E i \in 1 .. Len(out') :
             /\ out'[i] = NoteOnMsg(c, mc, n, channels[c].velocity)
             /\ m # 0 => \E j \in 1 .. i - 1 : out'[j] = NoteOffMsg(c, mc, m)

\* C1 as stated: for every note value n in 1..127 that arrives as the data
\* byte of a Note command while started, check() emits exactly one Note On
\* for n, preceded by the Note Off of the note that was sounding.
C1_NoteOn_1_127 ==
    [][(AwaitedBy(LSDJCommandN) /\ rx' \in 1 .. 127) => EmitsNoteOn(rx')]_vars

\* C1 amended: the same for every note value n in 1..0x6F; a byte in
\* 0x70..0x7F is never a data byte.
C1_NoteOn ==
    [][(AwaitedBy(LSDJCommandN) /\ rx' \in 1 .. 111) => EmitsNoteOn(rx')]_vars

\* C1: a Note command replaced the sounding note: Note Off, then Note On.
C1_Witness ==
    /\ dispatched
    /\ command = LSDJCommandN
    /\ Len(out) = 2
    /\ IsNoteOff(out[1])
    /\ IsNoteOn(out[2])
    /\ out[1].bytes[2] # out[2].bytes[2]

\* C2: a Stop byte emits one Note Off (0x80|midiChannel, note, 0x40) for each
\* channel with a sounding note and nothing else, and leaves every
\* currentNote at 0; a Stop that follows a Stop emits nothing and changes
\* no member.
C2_Stop ==
    [][Rx(126) =>
         LET sndg == {c \in LSDJChannels : channelStates[c].currentNote # 0}
         IN  /\ Len(out') = Cardinality(sndg)
             /\ \A c \in sndg :
                  \E i \in 1 .. Len(out') :
                    out'[i] = NoteOffMsg(c, channels[c].midiChannel,
                                         channelStates[c].currentNote)
             /\ \A c \in LSDJChannels : channelStates'[c].currentNote = 0
             /\ ~started'
             /\ (rx = 126 \/ ~started) =>
                  (out' = <<>> /\ UNCHANGED progVars)]_vars

\* C2: a Stop has just silenced two channels.
C2_Witness ==
    /\ rx = 126
    /\ Len(out) = 2
    /\ out[1].src # out[2].src

\* C3: while started is false no frame emits a MIDI byte or changes a
\* channel, and a data byte still returns the classifier to
\* ReceiverStateCommand: the frames dropped leave nothing behind that the
\* dispatch after the next Start reads.
C3_NotStarted ==
    [][(RxAny /\ ~started) =>
         /\ out' = <<>>
         /\ channels' = channels
         /\ channelStates' = channelStates
         /\ rx' # 125 => ~started'
         /\ rx' < 112 => state' = ReceiverStateCommand
         /\ rx' = 125 => UNCHANGED <<state, command, channel, data>>]_vars

\* C3: a complete frame was dropped while the transport was not started.
C3_Witness ==
    /\ ~started
    /\ rx = 60
    /\ data = 60
    /\ state = ReceiverStateCommand
    /\ cmdByte \in 112 .. 123
    /\ out = <<>>

ConfigStateOf(c) == channelStates[c].configState

\* The count of CC numbers the configuration sequence of channel c
\* announced in its mode/channel byte.
Announced(c) == (cfgBytes[c][1] \div 16) % 16

\* How many CC-number bytes the configuration sequence of channel c has
\* consumed.
NumCCBytes(c) ==
    IF Len(cfgBytes[c]) = 0 THEN 0
    ELSE IF Len(cfgBytes[c]) - 1 < Announced(c) THEN Len(cfgBytes[c]) - 1
    ELSE Announced(c)

\* C4 as stated: of m announced CC numbers, the k-th byte received is in
\* ccNumbers element m - k.
C4_HighestIndexFirst ==
    \A c \in LSDJChannels : \A k \in 1 .. NumCCBytes(c) :
        channels[c].ccNumbers[Announced(c) - k] = cfgBytes[c][k + 1]

\* C4 amended: the k-th CC-number byte received is in ccNumbers element
\* k - 1: the first byte in element 0, the last in element m - 1.
C4_LowestIndexFirst ==
    \A c \in LSDJChannels : \A k \in 1 .. NumCCBytes(c) :
        channels[c].ccNumbers[k - 1] = cfgBytes[c][k + 1]

\* C4: a sequence that announced 2 CC numbers has received both, and they
\* differ.
C4_Witness ==
    \E c \in LSDJChannels :
        /\ Len(cfgBytes[c]) = 3
        /\ Announced(c) = 2
        /\ cfgBytes[c][2] # cfgBytes[c][3]
        /\ ConfigStateOf(c) = ChannelConfigStateVelocity

\* C5 as stated: a Start or a Stop byte leaves every channel's configState
\* Idle.
C5_StartOrStopAbandons ==
    [][(RxAny /\ rx' \in {125, 126}) =>
         \A c \in LSDJChannels :
            channelStates'[c].configState = ChannelConfigStateIdle]_vars

\* C5 amended: a Stop byte leaves every channel's configState Idle; a Start
\* byte leaves every configState as it is; and a configState is other than
\* Idle only while started is true.
C5_StopAbandons ==
    [][/\ Rx(126) =>
            \A c \in LSDJChannels :
               channelStates'[c].configState = ChannelConfigStateIdle
       /\ Rx(125) => channelStates' = channelStates
       /\ ~started' =>
            \A c \in LSDJChannels :
               channelStates'[c].configState = ChannelConfigStateIdle]_vars

\* C5: a Stop byte arrived right after the mode/channel byte of a
\* configuration sequence.
C5_Witness ==
    /\ rx = 126
    /\ nbytes = 6
    /\ \E c \in LSDJChannels :
         /\ Len(cfgBytes[c]) = 1
         /\ ConfigStateOf(c) = ChannelConfigStateIdle

\* The frame being dispatched is the one the last byte in 0x70..0x7B began.
FrameOfCmdByte ==
    /\ cmdByte \in 112 .. 123
    /\ channel = cmdByte % 4
    /\ command = (cmdByte \div 4) % 4
    /\ data = rx

\* C6 as stated: a data byte is dispatched as the argument of the last
\* byte >= 0x70 received before it: no byte >= 0x70, 0x7C..0x7F included,
\* came between the command byte and its data byte.
C6_EveryCommandShapedBytePreempts ==
    dispatched => (FrameOfCmdByte /\ ~intervened)

\* C6 amended: a byte in 0x70..0x7B received while a data byte is awaited
\* pre-empts the frame, and the data byte that follows is dispatched as the
\* argument of that byte; a byte in 0x7C..0x7F leaves the classifier and the
\* pending command as they are.
C6_CommandBytePreempts ==
    [][/\ dispatched' => FrameOfCmdByte'
       /\ (RxAny /\ rx' \in 124 .. 127) =>
            UNCHANGED <<state, command, channel>>]_vars

\* C6: the frame dispatched began with a command byte that pre-empted a
\* half-received frame.
C6_Witness ==
    /\ dispatched
    /\ preempting
    /\ out # <<>>

\* Channel c has consumed the whole sequence Y6F, X12, X n, X v.
RoundTripDone(c) == Len(cfgBytes[c]) = 3 /\ cfgBytes[c][1] = 18

\* The settings the sequence Y6F, X12, X n, X v gives channel c.
RoundTripSettings(c) ==
    /\ channels[c].midiChannel = 2
    /\ channels[c].ccMode = ChannelCCModeSingle
    /\ channels[c].ccNumbers[0] = cfgBytes[c][2]
    /\ channels[c].velocity = cfgBytes[c][3]
    /\ ConfigStateOf(c) = ChannelConfigStateIdle

\* C7: the sequence Y6F, X12, X n, X v on a channel leaves midiChannel = 2,
\* ccMode = Single, ccNumbers[0] = n, velocity = v, configState = Idle, and
\* a Note or Control Change frame that follows on the channel is written
\* on MIDI channel 2 with velocity v rescaled, or with CC number n.
C7_RoundTrip ==
    [][\A c \in LSDJChannels :
         /\ RoundTripDone(c)' => RoundTripSettings(c)'
         /\ (RoundTripDone(c) /\ channel = c /\ rx' \in 0 .. 111) =>
              /\ (AwaitedBy(LSDJCommandN) /\ rx' # 0) =>
                    /\ out' # <<>>
                    /\ out'[Len(out')] =
                         NoteOnMsg(c, 2, rx', cfgBytes[c][3])
              /\ AwaitedBy(LSDJCommandX) =>
                    out' = <<ControlChangeMsg(c, 2, cfgBytes[c][2],
                                              (rx' * 127) \div 111)>>]_vars

\* C7: after the sequence, with n # v, a Note frame replaced the note that
\* was sounding, on MIDI channel 2.
C7_Witness ==
    \E c \in LSDJChannels :
        /\ RoundTripDone(c)
        /\ cfgBytes[c][2] # cfgBytes[c][3]
        /\ dispatched
        /\ channel = c
        /\ command = LSDJCommandN
        /\ Len(out) = 2
        /\ out[2] = NoteOnMsg(c, 2, rx, cfgBytes[c][3])

\* C8: a Note frame, or a Program Change frame with data # 0x6F, on a
\* channel whose configState is not Idle leaves configState Idle and the
\* settings untouched, and writes what it writes in Idle: the Note Off of
\* the sounding note and the Note On, or the Program Change.
C8_AbandonThenProcess ==
    [][(/\ rx' \in 0 .. 111
        /\ ConfigStateOf(channel) # ChannelConfigStateIdle
        /\ \/ AwaitedBy(LSDJCommandN)
           \/ AwaitedBy(LSDJCommandY) /\ rx' # 111) =>
         LET c == channel
             mc == channels[c].midiChannel
             m == channelStates[c].currentNote
         IN  /\ channelStates'[c].configState = ChannelConfigStateIdle
             /\ channels' = channels
             /\ command = LSDJCommandN =>
                  /\ out' = (IF m # 0 THEN <<NoteOffMsg(c, mc, m)>> ELSE <<>>)
                       \o (IF rx' # 0
                           THEN <<NoteOnMsg(c, mc, rx', channels[c].velocity)>>
                           ELSE <<>>)
                  /\ channelStates'[c].currentNote = rx'
             /\ command = LSDJCommandY =>
                  /\ out' = <<ProgramChangeMsg(c, mc, rx')>>
                  /\ channelStates'[c].currentNote = m]_vars

\* C8: a Note frame was dispatched on a channel whose configuration
\* sequence, having announced 2 CC numbers, had received one.
C8_Witness ==
    /\ dispatched
    /\ command = LSDJCommandN
    /\ nbytes = 9
    /\ Len(cfgBytes[channel]) = 2
    /\ Announced(channel) = 2
    /\ ConfigStateOf(channel) = ChannelConfigStateIdle
    /\ out # <<>>

\* Channel c's configuration sequence was abandoned after its mode/channel
\* byte and before its velocity byte.
Interrupted(c) ==
    /\ Len(cfgBytes[c]) >= 1
    /\ Len(cfgBytes[c]) < Announced(c) + 2
    /\ ConfigStateOf(c) = ChannelConfigStateIdle

\* What an abandoned sequence has written to channel c: midiChannel, ccMode
\* when a count above 0 was announced, and the elements of ccNumbers
\* filled so far.
WrittenFieldsApplied(c) ==
    /\ channels[c].midiChannel = cfgBytes[c][1] % 16
    /\ Announced(c) = 1 => channels[c].ccMode = ChannelCCModeSingle
    /\ Announced(c) > 1 => channels[c].ccMode = ChannelCCModeScaled
    /\ Announced(c) = 0 => channels[c].ccMode = preCfg[c].ccMode
    /\ \A i \in 0 .. NumCCBytes(c) - 1 :
         channels[c].ccNumbers[i] = cfgBytes[c][i + 2]

C10_OneNotePerChannel ==
    [][\A i \in 1 .. Len(out') :
         IsNoteOn(out'[i]) =>
            Track(sounding, out', i - 1)[out'[i].src] = <<>>]_vars

\* C10: the mode/channel byte moved a channel with a sounding note to
\* another MIDI channel, and the Note Off went out on the old one.
C10_Witness ==
    /\ dispatched
    /\ command = LSDJCommandX
    /\ Len(out) = 1
    /\ IsNoteOff(out[1])
    /\ out[1].bytes[1] % 16 # channels[channel].midiChannel
    /\ sounding[channel] = <<>>

C12_SingleCC ==
    [][(/\ AwaitedBy(LSDJCommandX)
        /\ rx' \in 0 .. 111
        /\ ConfigStateOf(channel) = ChannelConfigStateIdle
        /\ channels[channel].ccMode = ChannelCCModeSingle) =>
         LET cfg == channels[channel]
             cc == cfg.ccNumbers[0]
         IN  IF cc # NoCC
             THEN /\ out' = <<ControlChangeMsg(channel, cfg.midiChannel, cc,
                                               (rx' * 127) \div 111)>>
                  /\ rx' = 111 => out'[1].bytes[3] = 127
                  /\ rx' = 0 => out'[1].bytes[3] = 0
                  /\ \A v \in 0 .. 111 :
                       NormalCC(Members, channel, v).out =
                         <<ControlChangeMsg(channel, cfg.midiChannel, cc,
                                            (v * 127) \div 111)>>
             ELSE /\ out' = <<>>
                  /\ \A v \in 0 .. 111 :
                       NormalCC(Members, channel, v).out = <<>>]_vars

\* C12: the single-mode channel PU1, configured by X12 with a CC number,
\* has just sent the value 127 for the argument 0x6F.
C12_Witness ==
    /\ dispatched
    /\ command = LSDJCommandX
    /\ rx = 111
    /\ channels[LSDJChannelPU1].ccMode = ChannelCCModeSingle
    /\ channels[LSDJChannelPU1].ccNumbers[0] \in NumberBytes
    /\ out = <<ControlChangeMsg(LSDJChannelPU1, 2,
                                channels[LSDJChannelPU1].ccNumbers[0], 127)>>

\* C13: an X argument d in 0..0x6F that arrives while started, for a channel
\* in ChannelConfigStateIdle and the scaled mode, selects the element of
\* ccNumbers by its high nibble and takes the value v from its low nibble:
\* it emits exactly the message (0xB0|midiChannel, ccNumbers[selector],
\* floor(v * 127 / 15)) when the selected element is set, so 127 for
\* v = 0xF and 0 for v = 0, and nothing when it is NoCC; in the state of
\* such a step the Control Change case gives the same for every d in
\* 0..0x6F.
C13_ScaledCC ==
    [][(/\ AwaitedBy(LSDJCommandX)
        /\ rx' \in 0 .. 111
        /\ ConfigStateOf(channel) = ChannelConfigStateIdle
        /\ channels[channel].ccMode = ChannelCCModeScaled) =>
         LET cfg == channels[channel]
             Expected(d) ==
               LET selector == d \div 16
                   v == d % 16
               IN  IF cfg.ccNumbers[selector] # NoCC
                   THEN <<ControlChangeMsg(channel, cfg.midiChannel,
                                           cfg.ccNumbers[selector],
                                           (v * 127) \div 15)>>
                   ELSE <<>>
         IN  /\ out' = Expected(rx')
             /\ (rx' % 16 = 15 /\ out' # <<>>) => out'[1].bytes[3] = 127
             /\ (rx' % 16 = 0 /\ out' # <<>>) => out'[1].bytes[3] = 0
             /\ \A d \in 0 .. 111 :
                  NormalCC(Members, channel, d).out = Expected(d)]_vars

\* C13: the scaled-mode channel PU1, configured by X21 with two CC numbers,
\* has just sent the value 127 to the second of them for the argument 0x1F.
C13_Witness ==
    /\ dispatched
    /\ command = LSDJCommandX
    /\ rx = 31
    /\ channels[LSDJChannelPU1].ccMode = ChannelCCModeScaled
    /\ channels[LSDJChannelPU1].ccNumbers[1] \in NumberBytes
    /\ channels[LSDJChannelPU1].ccNumbers[2] = NoCC
    /\ out = <<ControlChangeMsg(LSDJChannelPU1, 1,
                                channels[LSDJChannelPU1].ccNumbers[1], 127)>>

\* C14 as stated: a configuration sequence whose mode/channel argument has
\* the count m = 0 leaves the channel's ccMode and all seven ccNumbers as
\* they were when the Y6F came, and leaves velocity alone until its
\* velocity argument.
C14_ZeroCountKeepsCCs ==
    \A c \in LSDJChannels :
      (Len(cfgBytes[c]) >= 1 /\ Announced(c) = 0) =>
        /\ channels[c].ccMode = preCfg[c].ccMode
        /\ channels[c].ccNumbers = preCfg[c].ccNumbers
        /\ Len(cfgBytes[c]) = 1 => channels[c].velocity = preCfg[c].velocity

\* C15: a Note command with the argument 0 that arrives while started, for
\* a channel whose currentNote is m # 0, emits exactly one message, the
\* Note Off (0x80|midiChannel, m, 0x40), and no Note On, and leaves
\* currentNote at 0; for a channel with no note sounding it emits nothing.
C15_NoteZero ==
    [][(AwaitedBy(LSDJCommandN) /\ rx' = 0) =>
         LET c == channel
             m == channelStates[c].currentNote
         IN  /\ out' = IF m # 0
                       THEN <<NoteOffMsg(c, channels[c].midiChannel, m)>>
                       ELSE <<>>
             /\ NoteOnsIn(out') = {}
             /\ channelStates'[c].currentNote = 0]_vars

\* C15: a Note command with the argument 0 has just stopped the note that
\* was sounding on its channel.
C15_Witness ==
    /\ dispatched
    /\ command = LSDJCommandN
    /\ rx = 0
    /\ Len(out) = 1
    /\ IsNoteOff(out[1])
    /\ out[1].bytes[2] # 0
    /\ channelStates[channel].currentNote = 0

\* C16: a check() that dispatches a Note, Control Change or Program Change
\* command on channel c, a step of a configuration sequence or its
\* interruption included, leaves the settings and the runtime state of the
\* three other channels as they were, and every message it writes is
\* written for c, to the MIDI channel c had before or has after the step.
C16_OtherChannelsUntouched ==
    [][(RxAny /\ dispatched') =>
         LET c == channel
         IN  /\ \A c2 \in LSDJChannels \ {c} :
                  /\ channels'[c2] = channels[c2]
                  /\ channelStates'[c2] = channelStates[c2]
             /\ \A i \in 1 .. Len(out') :
                  /\ out'[i].src = c
                  /\ out'[i].bytes[1] % 16 \in
                       {channels[c].midiChannel, channels'[c].midiChannel}]_vars

\* C16: a Y6F has just opened a configuration sequence on one channel while
\* the sequence of another channel, past its mode/channel argument, is
\* still in progress.
C16_Witness ==
    /\ dispatched
    /\ rx = 111
    /\ ConfigStateOf(channel) = ChannelConfigStateCCModeAndMIDIChannel
    /\ \E c2 \in LSDJChannels \ {channel} :
         /\ ConfigStateOf(c2) \in
              ChannelConfigStateCC1 .. ChannelConfigStateVelocity
         /\ Len(cfgBytes[c2]) = 1

\* C17: a Y argument p # 0x6F that arrives while started emits exactly the
\* message (0xC0|midiChannel, p); the argument 0x6F emits nothing and puts
\* the channel in ChannelConfigStateCCModeAndMIDIChannel, whatever
\* configuration state it was in.
C17_ProgramChange ==
    [][(AwaitedBy(LSDJCommandY) /\ rx' \in 0 .. 111) =>
         LET c == channel
         IN  IF rx' # 111
             THEN out' = <<ProgramChangeMsg(c, channels[c].midiChannel, rx')>>
             ELSE /\ out' = <<>>
                  /\ channelStates'[c].configState =
                       ChannelConfigStateCCModeAndMIDIChannel]_vars

\* C17: a Y6F has just restarted the configuration of a channel whose
\* earlier sequence had got as far as changing its settings.
C17_Witness ==
    /\ dispatched
    /\ command = LSDJCommandY
    /\ rx = 111
    /\ out = <<>>
    /\ nbytes = 7
    /\ ConfigStateOf(channel) = ChannelConfigStateCCModeAndMIDIChannel
    /\ preCfg[channel] # InitChannel

\* C18: a byte below 0x70 received while state is ReceiverStateCommand is
\* dropped: no MIDI byte is written and no member changes, so the state
\* stays ReceiverStateCommand and the channels and started stay as they
\* were; a check() whose poll found no byte writes nothing and changes no
\* member either.
C18_StrayByteDropped ==
    [][/\ (RxAny /\ rx' \in 0 .. 111 /\ state = ReceiverStateCommand) =>
            (out' = <<>> /\ UNCHANGED progVars)
       /\ rx' = NoByte => (out' = <<>> /\ UNCHANGED progVars)]_vars

\* C18: a byte below 0x70 was dropped between two frames, while started and
\* with a note sounding.
C18_Witness ==
    /\ started
    /\ rx \in 0 .. 111
    /\ ~dispatched
    /\ state = ReceiverStateCommand
    /\ data # rx
    /\ out = <<>>
    /\ \E c \in LSDJChannels : channelStates[c].currentNote # 0

\* The number that the levels lv[from] .. lv[8] spell, most significant
\* bit first.
Spelled(lv, from) ==
    LET w == <<128, 64, 32, 16, 8, 4, 2, 1>>
        Sum[i \in from .. 9] == IF i = 9 THEN 0 ELSE w[i] * lv[i] + Sum[i + 1]
    IN  Sum[from]

\* C19 as stated: the byte readByte() reports is the number that all eight
\* samples spell, the first sample as its most significant bit.
C19_AllEightSamples ==
    rx # NoByte => (Len(samples) = 8 /\ rx = Spelled(samples, 1))

\* C19 amended: the byte readByte() reports is the number that the seven
\* samples taken after the first spell, most significant bit first; the
\* first sample is high and is not part of the byte, which is in 0..0x7F.
C19_SevenSamples ==
    rx # NoByte =>
      /\ Len(samples) = 8
      /\ samples[1] = 1
      /\ rx = Spelled(samples, 2)
      /\ rx \in 0 .. 127

\* C19: the third byte of a run was read from the levels 1 111 1101 as 0x7D
\* and started the transport.
C19_Witness ==
    /\ rx = 125
    /\ samples = <<1, 1, 1, 1, 1, 1, 0, 1>>
    /\ started
    /\ nbytes = 3

\* No note sounds and no configuration sequence is in progress, as far as
\* the members cs of the four channels say.
Quiet(cs) ==
    \A c \in LSDJChannels :
      /\ cs[c].currentNote = 0
      /\ cs[c].configState = ChannelConfigStateIdle

\* C20: whenever started is false, before or after a step, every channel has
\* currentNote = 0 and configState = ChannelConfigStateIdle; and a byte
\* received while started is false changes no channel's midiChannel, ccMode,
\* ccNumbers or velocity.
C20_NotStartedIsQuiet ==
    [][/\ ~started => Quiet(channelStates)
       /\ ~started' => Quiet(channelStates')
       /\ (RxAny /\ ~started) => channels' = channels]_vars

\* C20: a Stop has just silenced a note on one channel and abandoned the
\* configuration sequence that a Y6F had opened on another.
C20_Witness ==
    /\ ~started
    /\ rx = 126
    /\ Len(out) = 1
    /\ out[1].src # channel
    /\ state = ReceiverStateCommand
    /\ command = LSDJCommandY
    /\ data = 111
    /\ Quiet(channelStates)

C22_IndicesInRange ==
    /\ command \in {LSDJCommandN, LSDJCommandX, LSDJCommandY}
    /\ channel \in LSDJChannels
    /\ \A c \in LSDJChannels :
         ConfigStateOf(c) \in ChannelConfigStateCC1 .. ChannelConfigStateCC7 =>
           LET total == channelStates[c].configStateTotalCCs
               left == ConfigStateOf(c) - ChannelConfigStateCC1
               index == total - 1 - left
           IN  /\ index \in 0 .. total - 1
               /\ index \in 0 .. 6
    /\ dispatched => ScaledIndex(data) \in 0 .. 6
    /\ \A d \in 0 .. 111 : ScaledIndex(d) \in 0 .. 6
    /\ \A c \in LSDJChannels : DOMAIN channels[c].ccNumbers = 0 .. 6

\* C22: channel PU1 announced 6 CC numbers, has received 5 of them and
\* awaits the last, which goes to ccNumbers[5].
C22_Witness ==
    /\ dispatched
    /\ ConfigStateOf(LSDJChannelPU1) = ChannelConfigStateCC1
    /\ channelStates[LSDJChannelPU1].configStateTotalCCs = 6
    /\ Len(cfgBytes[LSDJChannelPU1]) = 6
    /\ channels[LSDJChannelPU1].ccNumbers[4] = rx
    /\ channels[LSDJChannelPU1].ccNumbers[5] = NoCC

\* C23: every message a check() writes is a Note Off, Note On or Control
\* Change of 3 bytes or a Program Change of 2 bytes, with a status byte in
\* 0x80..0xFF, whose low nibble is the MIDI channel, and data bytes of at
\* most 0x7F, so never the NoCC of an unset CC number; and every channel's
\* midiChannel is in 0..15 and its velocity at most 0x6F, which the Note On
\* rescales to at most 127.
C23_WellFormedMIDI ==
    /\ \A c \in LSDJChannels :
         /\ channels[c].midiChannel \in 0 .. 15
         /\ channels[c].velocity \in 0 .. 111
         /\ Scale6F(channels[c].velocity) \in 0 .. 127
    /\ \A i \in 1 .. Len(out) :
         LET b == out[i].bytes
         IN  /\ b[1] \in 128 .. 255
             /\ \/ IsNoteOff(out[i]) /\ Len(b) = 3
                \/ IsNoteOn(out[i]) /\ Len(b) = 3
                \/ IsControlChange(out[i]) /\ Len(b) = 3
                \/ IsProgramChange(out[i]) /\ Len(b) = 2
             /\ \A j \in 2 .. Len(b) : b[j] \in 0 .. 127
             /\ IsControlChange(out[i]) => b[2] # NoCC

\* C23: a Note On has just been written with the velocity 127, rescaled
\* from the 0x6F that a configuration sequence stored for the channel.
C23_Witness ==
    /\ dispatched
    /\ command = LSDJCommandN
    /\ channels[channel].velocity = 111
    /\ out # <<>>
    /\ IsNoteOn(out[Len(out)])
    /\ out[Len(out)].bytes[3] = 127

====
